---- MODULE Spec2Model ----
(***************************************************************************)
(* Resource generator CLIs of the express-mongo-ts boilerplate.            *)
(*                                                                         *)
(* Four generators are modelled:                                           *)
(*   FlatSplit       unnamed/part_000:1-428   (routes/ + modules/ trees)   *)
(*   FlatColocated   unnamed/part_000:429-959 (modules/ only, + service)   *)
(*   NestedSplit     .bin/nested-resource-cli.js                           *)
(*   NestedColocated unnamed/part_001                                      *)
(*                                                                         *)
(* A string is a sequence of characters; a character is a one-letter       *)
(* TLA+ string, and a fixed piece of template text that holds no path      *)
(* separator and no dot segment (".controller", "helpers", "create") is    *)
(* kept as one element.  A path is the sequence of its segments, relative  *)
(* to the project root path.join(__dirname, '..'); leading ".." segments   *)
(* stand for directories above the project root.                           *)
(***************************************************************************)
EXTENDS Integers, Sequences, FiniteSets, TLC

\* ------------------------------------------------------------------ bounds
MaxLen == 4
MaxRerunLen == 1
MaxEdited == 1
MaxFaultLen == 2
MaxRaceDepth == 1
MaxServeLen == 1
MaxLoadDepth == 1
MaxCommands == 2
MaxConns == 6
MaxRejections == 2

\* -------------------------------------------------------------- characters
Alphabet == {"a", "A", "/", "."}

SEP == "/"
DOT == <<".">>
DOTDOT == <<".", ".">>
SRC == <<"s", "r", "c">>
ROUTES == <<"r", "o", "u", "t", "e", "s">>
MODULES == <<"m", "o", "d", "u", "l", "e", "s">>

\* String.prototype.toLowerCase, one character
LowerChar(c) ==
  CASE c = "A" -> "a"
    [] c = "U" -> "u"
    [] c = "O" -> "o"
    [] c = "R" -> "r"
    [] OTHER -> c

\* String.prototype.toUpperCase, one character
UpperChar(c) ==
  CASE c = "a" -> "A"
    [] c = "u" -> "U"
    [] c = "o" -> "O"
    [] c = "r" -> "R"
    [] c = "b" -> "B"
    [] OTHER -> c

toLowerCase(str) == [i \in 1..Len(str) |-> LowerChar(str[i])]

capitalizeEveryLetter(str) == [k \in 1..Len(str) |-> UpperChar(str[k])]

\* function capitalize(str): str.charAt(0).toUpperCase() + str.slice(1)
capitalize(str) ==
  IF str = <<>> THEN <<>> ELSE <<UpperChar(str[1])>> \o Tail(str)

\* ----------------------------------------------------------------- strings
Min(S) == CHOOSE x \in S : \A y \in S : x <= y

RECURSIVE split(_)
\* String.prototype.split('/')
split(str) ==
  LET at == {i \in 1..Len(str) : str[i] = SEP}
  IN  IF at = {} THEN <<str>>
      ELSE <<SubSeq(str, 1, Min(at) - 1)>>
             \o split(SubSeq(str, Min(at) + 1, Len(str)))

RECURSIVE join(_)
\* Array.prototype.join('/')
join(arr) ==
  IF arr = <<>> THEN <<>>
  ELSE IF Len(arr) = 1 THEN arr[1]
  ELSE arr[1] \o <<SEP>> \o join(Tail(arr))

Last(s) == s[Len(s)]
Front(s) == SubSeq(s, 1, Len(s) - 1)

\* Array(n).fill('..').join('/')
UpTraversal(n) == join([i \in 1..n |-> DOTDOT])

\* ------------------------------------------------------------------- paths
RECURSIVE NormalizeAcc(_, _)
NormalizeAcc(acc, rest) ==
  IF rest = <<>> THEN acc
  ELSE LET h == Head(rest)
           t == Tail(rest)
       IN  IF h = <<>> \/ h = DOT THEN NormalizeAcc(acc, t)
           ELSE IF h = DOTDOT
                THEN IF acc # <<>> /\ Last(acc) # DOTDOT
                     THEN NormalizeAcc(Front(acc), t)
                     ELSE NormalizeAcc(Append(acc, DOTDOT), t)
                ELSE NormalizeAcc(Append(acc, h), t)

\* path.normalize on a list of segments: drops '' and '.', resolves '..'
Normalize(segs) == NormalizeAcc(<<>>, segs)

\* path.join(__dirname, '..', ...args): the arguments are joined with '/'
\* and the result is normalized
PathJoin(args) == Normalize(split(join(args)))

\* path.join(dir, name) for an already joined dir
PathJoinDir(dir, name) == Normalize(dir \o split(name))

\* path.dirname
Dirname(p) == Front(p)

\* -------------------------------------------------------------- generators
Generators == {"FlatSplit", "FlatColocated", "NestedSplit", "NestedColocated"}

IsNested(g) == g \in {"NestedSplit", "NestedColocated"}
IsSplit(g) == g \in {"FlatSplit", "NestedSplit"}

\* const resourceName = parts.pop().toLowerCase()   (nested)
\* const resourceName = name.toLowerCase()          (flat)
resourceName(g, arg) ==
  IF IsNested(g) THEN toLowerCase(Last(split(arg))) ELSE toLowerCase(arg)

\* const nestedFolders = parts   (what split() left after pop())
nestedFolders(g, arg) ==
  IF IsNested(g) THEN Front(split(arg)) ELSE <<>>

capitalizedResourceName(g, arg) == capitalize(resourceName(g, arg))

\* routeDir: routes/... in the split generators, modules/<name> in the flat
\* colocated one; the nested colocated generator has moduleDir only
routeDir(g, arg) ==
  CASE g = "FlatSplit" -> PathJoin(<<SRC, ROUTES, resourceName(g, arg)>>)
    [] g = "FlatColocated" -> PathJoin(<<SRC, MODULES, resourceName(g, arg)>>)
    [] g = "NestedSplit" ->
         PathJoin(<<SRC, ROUTES>> \o nestedFolders(g, arg) \o <<resourceName(g, arg)>>)
    [] g = "NestedColocated" ->
         PathJoin(<<SRC, MODULES>> \o nestedFolders(g, arg) \o <<resourceName(g, arg)>>)

\* moduleDir (nested); controllerDir = interfaceDir = modelsDir =
\* validationDir = serviceDir (flat)
moduleDir(g, arg) ==
  PathJoin(<<SRC, MODULES>> \o nestedFolders(g, arg) \o <<resourceName(g, arg)>>)

dirListRouteDirOnly(g, arg) == <<routeDir(g, arg)>>

\* the list handed to the directory-creation loop
dirList(g, arg) ==
  CASE g = "FlatSplit" ->
         <<routeDir(g, arg), moduleDir(g, arg), moduleDir(g, arg), moduleDir(g, arg)>>
    [] g = "FlatColocated" ->
         <<routeDir(g, arg), moduleDir(g, arg), moduleDir(g, arg), moduleDir(g, arg)>>
    [] g = "NestedSplit" -> <<routeDir(g, arg), moduleDir(g, arg)>>
    [] g = "NestedColocated" -> <<moduleDir(g, arg)>>

\* ------------------------------------------------------------- file paths
Kinds == {"route", "controller", "model", "interface", "validation", "service"}

Suffix(kind) == <<"." \o kind, ".ts">>

routeFilePathNestedNamed(g, arg) ==
  IF g = "FlatSplit" THEN PathJoinDir(routeDir(g, arg), <<"index", ".ts">>)
  ELSE PathJoinDir(routeDir(g, arg), resourceName(g, arg) \o Suffix("route"))

routeFilePath(g, arg) ==
  IF IsSplit(g) THEN PathJoinDir(routeDir(g, arg), <<"index", ".ts">>)
  ELSE PathJoinDir(routeDir(g, arg), resourceName(g, arg) \o Suffix("route"))

\* controllerFilePath, modelFilePath, interfaceFilePath, validationFilePath,
\* serviceFilePath
moduleFilePath(g, arg, kind) ==
  PathJoinDir(moduleDir(g, arg), resourceName(g, arg) \o Suffix(kind))

filePath(g, arg, kind) ==
  IF kind = "route" THEN routeFilePath(g, arg) ELSE moduleFilePath(g, arg, kind)

\* ------------------------------------------------------ template contents
(* A content is the sequence of the template's items: the whitespace the   *)
(* template literal opens and closes with, its imports of project files,   *)
(* its route registrations and its exports.  Text that holds no            *)
(* cross-reference (comments, package imports, function bodies) is left    *)
(* out, but for the service member a controller handler calls.             *)
Item(k, m, names, str, calls) ==
  [k |-> k, m |-> m, names |-> names, str |-> str, calls |-> calls]

Whitespace == Item("ws", "", <<>>, <<>>, <<>>)
Import(names, from) == Item("import", "", names, from, <<>>)
Register(method, path, handlers) == Item("route", method, handlers, path, <<>>)
Export(name, calls) == Item("export", "", <<name>>, <<>>, calls)

IsWs(it) == it.k = "ws"

RECURSIVE trimStart(_)
trimStart(c) == IF c # <<>> /\ IsWs(Head(c)) THEN trimStart(Tail(c)) ELSE c

RECURSIVE trimEnd(_)
trimEnd(c) == IF c # <<>> /\ IsWs(Last(c)) THEN trimEnd(Front(c)) ELSE c

\* String.prototype.trim
trim(c) == trimEnd(trimStart(c))

\* the bytes of one item: one for the item and one for each element of its
\* text (every character of the alphabet is one byte in UTF-8)
ItemBytes(it) == 1 + Len(it.str) + Len(it.names) + Len(it.calls)

RECURSIVE byteLength(_)
\* Buffer.byteLength(content, 'utf8')
byteLength(c) == IF c = <<>> THEN 0 ELSE ItemBytes(Head(c)) + byteLength(Tail(c))

\* identifiers built from capitalizedResourceName
createName(cap) == <<"create">> \o cap
createManyNamePlural(cap) == <<"createMany">> \o cap \o <<"s">>
createManyName(cap) == <<"createMany">> \o cap
updateName(cap) == <<"update">> \o cap
updateManyName(cap) == <<"updateMany">> \o cap
deleteName(cap) == <<"delete">> \o cap
deleteManyName(cap) == <<"deleteMany">> \o cap
getByIdName(cap) == <<"get">> \o cap \o <<"ById">>
getManyName(cap) == <<"getMany">> \o cap
validateIdName(cap) == <<"validate">> \o cap \o <<"Id">>
servicesName(rn) == rn \o <<"Services">>

\* the names in the order of the route's import list, of the controller's
\* exports and of the service's members
handlerNames(cap) ==
  <<createName(cap), createManyName(cap), updateName(cap), updateManyName(cap),
    deleteName(cap), deleteManyName(cap), getByIdName(cap), getManyName(cap)>>

sharedPrefixOffByOne(g, arg) ==
  IF IsNested(g) THEN UpTraversal(Len(nestedFolders(g, arg)) + 1)
  ELSE <<".", ".", "/", ".", ".">>

\* '../..' (flat), Array(nestedFolders.length + 2).fill('..').join('/') (nested)
sharedPrefix(g, arg) ==
  IF IsNested(g) THEN UpTraversal(Len(nestedFolders(g, arg)) + 2)
  ELSE <<".", ".", "/", ".", ".">>

siblingImportThroughModules(g, arg, kind) ==
  UpTraversal(Len(nestedFolders(g, arg)) + 2) \o <<"/">> \o MODULES \o <<"/">>
    \o join(nestedFolders(g, arg)) \o <<"/">> \o resourceName(g, arg)
    \o <<"/">> \o resourceName(g, arg) \o <<"." \o kind>>

\* './<name>.<kind>' between the files of one module
siblingImport(g, arg, kind) == <<".", "/">> \o resourceName(g, arg) \o <<"." \o kind>>

\* the specifier of a module file as the route file imports it
moduleImport(g, arg, kind) ==
  CASE g = "FlatSplit" ->
         <<".", ".", "/", ".", ".", "/">> \o MODULES \o <<"/">> \o resourceName(g, arg)
           \o <<"/">> \o resourceName(g, arg) \o <<"." \o kind>>
    [] g = "NestedSplit" ->
         UpTraversal(Len(nestedFolders(g, arg)) + 2) \o <<"/">> \o MODULES \o <<"/">>
           \o join(nestedFolders(g, arg)) \o <<"/">> \o resourceName(g, arg)
           \o <<"/">> \o resourceName(g, arg) \o <<"." \o kind>>
    [] OTHER -> siblingImport(g, arg, kind)

helpersImport(g, arg) ==
  sharedPrefix(g, arg) \o <<"/", "helpers", "/", "responses", "/", "custom-response">>
utilsImport(g, arg) ==
  sharedPrefix(g, arg) \o <<"/", "utils", "/", "catch-async", "/", "catch-async">>
handlersImport(g, arg) ==
  sharedPrefix(g, arg) \o <<"/", "handlers", "/", "zod-error-handler">>

routeTableManyLast(rn, cap) ==
  <<Register("post", <<"/", "create-">> \o rn, <<createName(cap)>>),
    Register("put", <<"/", "update-">> \o rn \o <<"/", ":id">>,
             <<validateIdName(cap), updateName(cap)>>),
    Register("delete", <<"/", "delete-">> \o rn \o <<"/", ":id">>,
             <<validateIdName(cap), deleteName(cap)>>),
    Register("get", <<"/", "get-">> \o rn \o <<"/", ":id">>,
             <<validateIdName(cap), getByIdName(cap)>>),
    Register("post", <<"/", "create-">> \o rn \o <<"/", "many">>, <<createManyName(cap)>>),
    Register("put", <<"/", "update-">> \o rn \o <<"/", "many">>, <<updateManyName(cap)>>),
    Register("delete", <<"/", "delete-">> \o rn \o <<"/", "many">>, <<deleteManyName(cap)>>),
    Register("get", <<"/", "get-">> \o rn \o <<"/", "many">>, <<getManyName(cap)>>)>>

routeTableIdBeforeMany(rn, cap) ==
  <<Register("post", <<"/", "create-">> \o rn, <<createName(cap)>>),
    Register("post", <<"/", "create-">> \o rn \o <<"/", "many">>, <<createManyName(cap)>>),
    Register("put", <<"/", "update-">> \o rn \o <<"/", ":id">>,
             <<validateIdName(cap), updateName(cap)>>),
    Register("put", <<"/", "update-">> \o rn \o <<"/", "many">>, <<updateManyName(cap)>>),
    Register("delete", <<"/", "delete-">> \o rn \o <<"/", ":id">>,
             <<validateIdName(cap), deleteName(cap)>>),
    Register("delete", <<"/", "delete-">> \o rn \o <<"/", "many">>, <<deleteManyName(cap)>>),
    Register("get", <<"/", "get-">> \o rn \o <<"/", ":id">>,
             <<validateIdName(cap), getByIdName(cap)>>),
    Register("get", <<"/", "get-">> \o rn \o <<"/", "many">>, <<getManyName(cap)>>)>>

\* the eight router.<method>(...) statements, in the template's order
routeTable(rn, cap) ==
  <<Register("post", <<"/", "create-">> \o rn, <<createName(cap)>>),
    Register("post", <<"/", "create-">> \o rn \o <<"/", "many">>, <<createManyName(cap)>>),
    Register("put", <<"/", "update-">> \o rn \o <<"/", "many">>, <<updateManyName(cap)>>),
    Register("put", <<"/", "update-">> \o rn \o <<"/", ":id">>,
             <<validateIdName(cap), updateName(cap)>>),
    Register("delete", <<"/", "delete-">> \o rn \o <<"/", "many">>, <<deleteManyName(cap)>>),
    Register("delete", <<"/", "delete-">> \o rn \o <<"/", ":id">>,
             <<validateIdName(cap), deleteName(cap)>>),
    Register("get", <<"/", "get-">> \o rn \o <<"/", "many">>, <<getManyName(cap)>>),
    Register("get", <<"/", "get-">> \o rn \o <<"/", ":id">>,
             <<validateIdName(cap), getByIdName(cap)>>)>>

routeContent(g, arg) ==
  LET rn == resourceName(g, arg)
      cap == capitalizedResourceName(g, arg)
  IN  <<Whitespace,
        Import(handlerNames(cap), moduleImport(g, arg, "controller")),
        Import(<<validateIdName(cap)>>, moduleImport(g, arg, "validation"))>>
      \o routeTable(rn, cap)
      \o <<Export(<<"router">>, <<>>), Whitespace>>

\* split: inline stubs; colocated: each handler calls the like-named member
\* of <resourceName>Services
controllerContent(g, arg) ==
  LET rn == resourceName(g, arg)
      cap == capitalizedResourceName(g, arg)
      names == handlerNames(cap)
  IN  <<Whitespace>>
      \o (IF IsSplit(g) THEN <<Import(<<<<"ServerResponse">>>>, helpersImport(g, arg))>>
          ELSE <<Import(<<servicesName(rn)>>, siblingImport(g, arg, "service")),
                 Import(<<<<"ServerResponse">>>>, helpersImport(g, arg)),
                 Import(<<<<"catchAsync">>>>, utilsImport(g, arg))>>)
      \o [i \in 1..Len(names) |->
            Export(names[i], IF IsSplit(g) THEN <<>> ELSE <<servicesName(rn), names[i]>>)]
      \o <<Whitespace>>

modelContent(g, arg) ==
  <<Whitespace, Export(capitalizedResourceName(g, arg), <<>>), Whitespace>>

interfaceContent(g, arg) ==
  <<Whitespace, Export(<<"T">> \o capitalizedResourceName(g, arg), <<>>), Whitespace>>

validationContent(g, arg) ==
  <<Whitespace,
    Import(<<<<"zodErrorHandler">>>>, handlersImport(g, arg)),
    Export(validateIdName(capitalizedResourceName(g, arg)), <<>>),
    Whitespace>>

serviceContentSevenMembers(g, arg) ==
  LET rn == resourceName(g, arg)
      cap == capitalizedResourceName(g, arg)
  IN  <<Whitespace,
        Import(<<cap \o <<"Model">>>>, siblingImport(g, arg, "model")),
        Item("export", "", <<servicesName(rn)>>, <<>>, SubSeq(handlerNames(cap), 1, 7)),
        Whitespace>>

serviceContent(g, arg) ==
  LET rn == resourceName(g, arg)
      cap == capitalizedResourceName(g, arg)
  IN  <<Whitespace,
        Import(<<cap \o <<"Model">>>>, siblingImport(g, arg, "model")),
        Item("export", "", <<servicesName(rn)>>, <<>>, handlerNames(cap)),
        Whitespace>>

content(g, arg, kind) ==
  CASE kind = "route" -> routeContent(g, arg)
    [] kind = "controller" -> controllerContent(g, arg)
    [] kind = "model" -> modelContent(g, arg)
    [] kind = "interface" -> interfaceContent(g, arg)
    [] kind = "validation" -> validationContent(g, arg)
    [] kind = "service" -> serviceContent(g, arg)

writeOrderServiceEverywhere(g) ==
  <<"route", "controller", "model", "interface", "validation", "service">>

\* the fs.writeFileSync calls, in source order
writeOrder(g) ==
  IF IsSplit(g) THEN <<"route", "controller", "model", "interface", "validation">>
  ELSE <<"route", "controller", "model", "interface", "validation", "service">>

reportOrderWithoutService(g) ==
  IF IsSplit(g) THEN <<"route", "controller", "interface", "model", "validation">>
  ELSE <<"controller", "interface", "model", "route", "validation">>

\* the console.log calls, in source order
reportOrder(g) ==
  IF IsSplit(g) THEN <<"route", "controller", "interface", "model", "validation">>
  ELSE <<"controller", "interface", "model", "route", "service", "validation">>

\* -------------------------------------------------------------- file system
\* a path made of '..' segments only: the project root or a directory above it
AtOrAboveRoot(p) == \A k \in 1..Len(p) : p[k] = DOTDOT

Ancestors(p) == {SubSeq(p, 1, k) : k \in 0..Len(p)}

IsDirectory(dirs, p) == p \in dirs \/ AtOrAboveRoot(p)

\* fs.existsSync
existsSync(dirs, files, p) == IsDirectory(dirs, p) \/ p \in DOMAIN files

\* fs.mkdirSync(dir, { recursive: true }): throws when a file is in the way
mkdirCanSucceed(files, p) == \A a \in Ancestors(p) : a \notin DOMAIN files
mkdirSync(dirs, p) == dirs \cup {a \in Ancestors(p) : ~AtOrAboveRoot(a)}

\* fs.writeFileSync(file, data): throws when the parent directory is missing
\* (ENOENT) or when the path is a directory (EISDIR)
writeCanSucceed(dirs, p) ==
  /\ p # <<>>
  /\ IsDirectory(dirs, Dirname(p))
  /\ ~IsDirectory(dirs, p)

writeFileSyncKeepingOld(files, p, data) ==
  [q \in DOMAIN files \cup {p} |->
     IF q # p THEN files[q]
     ELSE IF p \in DOMAIN files THEN files[p] \o data ELSE data]

\* ... and otherwise replaces the whole content of the file
writeFileSync(files, p, data) ==
  [q \in DOMAIN files \cup {p} |-> IF q = p THEN data ELSE files[q]]

\* const formatPath = (filePath) => path.relative(path.join(__dirname, '..'), filePath)
formatPath(p) == join(p)

\* the user module the repository ships with
UserName == <<"u", "s", "e", "r">>
ShippedValidation ==
  <<Import(<<<<"validate">>>>,
           <<".", ".", "/", ".", ".", "/", "handlers", "/", "zod-error-handler">>),
    Export(<<"validateCreateUser">>, <<>>),
    Export(<<"validateCreateManyUser">>, <<>>),
    Export(<<"validateUpdateUser">>, <<>>),
    Export(<<"validateUpdateManyUser">>, <<>>)>>
ShippedService ==
  <<Import(<<<<"UserModel">>, <<"IUser">>>>, <<".", "/">> \o UserName \o <<".model">>),
    Item("export", "", <<<<"userServices">>>>, <<>>, handlerNames(capitalize(UserName)))>>

InitialDirs == {<<SRC>>, <<SRC, MODULES>>, <<SRC, MODULES, UserName>>}
InitialFiles ==
  [p \in {<<SRC, MODULES, UserName, UserName \o Suffix("validation")>>,
          <<SRC, MODULES, UserName, UserName \o Suffix("service")>>} |->
     IF p[4] = UserName \o Suffix("validation") THEN ShippedValidation ELSE ShippedService]

\* ------------------------------------------------------------------ inputs
Strings(n) == UNION {[1..k -> Alphabet] : k \in 0..n}

ExampleInputs ==
  { UserName,
    <<"U", "s", "e", "r">>,
    <<"b", "i", "l", "l", "i", "n", "g", "/", "i", "n", "v", "o", "i", "c", "e", "s",
      "/", "o", "r", "d", "e", "r">>,
    <<"a", "/", "a", "/", "a", "/", "a", "/", "a", "/", "a">>,
    <<".", ".", "/", "a">>,
    <<"a", "/", ".", ".">>,
    <<"A", "/", ".", ".">>,
    <<".", ".", "/", "r", "o", "u", "t", "e", "s">>,
    <<" ", "u", "s", "e", "r">>,
    <<"a", " ">> }

Inputs == Strings(MaxLen) \cup ExampleInputs

\* ------------------------------------------------------------------- state
VARIABLES
  gen,      \* the generator script being run
  arg,      \* its command-line argument (<name> or <path>)
  pc,       \* "start", "mkdir", "write", "report", "done", "failed"
  i,        \* index of the next directory / file
  fsDirs,   \* directories of the file system
  fsFiles,  \* files of the file system: path -> content
  log,      \* lines printed by console.log in this invocation
  wrote,    \* paths this invocation has written, in order
  start,    \* the tree when this invocation started
  left,     \* the tree and the report the last finished invocation left
  prev,     \* `left` as it was when this invocation started
  procs,    \* two invocations run at the same time: generator and position of each
  lastWrite, \* the invocation that wrote each file last, of those two
  req,      \* the HTTP request the generated router is dispatching
  app,      \* the Express application: the commands run so far, what start-up mounted
  srv       \* the server process: listener, database connection, exit

vars ==
  <<gen, arg, pc, i, fsDirs, fsFiles, log, wrote, start, left, prev, procs, lastWrite,
    req, app, srv>>

Tree(dirs, files) == [dirs |-> dirs, files |-> files]
NoRun == [some |-> FALSE, ok |-> FALSE, tree |-> Tree({}, <<>>), log |-> <<>>]
Outcome(ok, dirs, files, lines) ==
  [some |-> TRUE, ok |-> ok, tree |-> Tree(dirs, files), log |-> lines]

\* no request has arrived, the application has not been started, no server
\* process runs
NoRequest ==
  [method |-> "", path |-> <<>>, layer |-> 0, h |-> 0, id |-> <<>>, trace |-> <<>>,
   status |-> "none"]
NoApp == [cmds |-> <<>>, loader |-> "", mounts |-> <<>>, status |-> "none"]
NoServer ==
  [pc |-> "load", server |-> "undefined", db |-> "none", conns |-> 0, cbs |-> 0,
   failed |-> FALSE, exited |-> FALSE, code |-> 0, by |-> ""]

InitWith(inputs) ==
  /\ gen \in Generators
  /\ arg \in inputs
  /\ pc = "start"
  /\ i = 1
  /\ fsDirs = InitialDirs
  /\ fsFiles = InitialFiles
  /\ log = <<>>
  /\ wrote = <<>>
  /\ start = Tree(InitialDirs, InitialFiles)
  /\ left = NoRun
  /\ prev = NoRun
  /\ procs = <<>>
  /\ lastWrite = <<>>
  /\ req = NoRequest
  /\ app = NoApp
  /\ srv = NoServer

Init == InitWith(Inputs)

\* .action((name) => { ... the constants of the invocation are computed
Plan ==
  /\ pc = "start"
  /\ pc' = "mkdir"
  /\ i' = 1
  /\ UNCHANGED <<req, app, srv, procs, lastWrite, gen, arg, fsDirs, fsFiles, log, wrote, start, left, prev>>

EnsureDirUnguarded ==
  /\ pc = "mkdir"
  /\ LET dir == dirList(gen, arg)[i]
         more == i < Len(dirList(gen, arg))
     IN  IF ~existsSync(fsDirs, fsFiles, dir) /\ mkdirCanSucceed(fsFiles, dir)
         THEN /\ fsDirs' = mkdirSync(fsDirs, dir)
              /\ pc' = IF more THEN "mkdir" ELSE "write"
              /\ i' = IF more THEN i + 1 ELSE 1
              /\ left' = left
         ELSE /\ fsDirs' = fsDirs
              /\ pc' = "failed"
              /\ i' = i
              /\ left' = Outcome(FALSE, fsDirs, fsFiles, log)
  /\ UNCHANGED <<req, app, srv, procs, lastWrite, gen, arg, fsFiles, log, wrote, start, prev>>

\* one turn of [routeDir, ...].forEach((dir) => { if (!fs.existsSync(dir))
\* fs.mkdirSync(dir, { recursive: true }) })
EnsureDir ==
  /\ pc = "mkdir"
  /\ LET dir == dirList(gen, arg)[i]
         more == i < Len(dirList(gen, arg))
     IN  IF existsSync(fsDirs, fsFiles, dir)
         THEN /\ fsDirs' = fsDirs
              /\ pc' = IF more THEN "mkdir" ELSE "write"
              /\ i' = IF more THEN i + 1 ELSE 1
              /\ left' = left
         ELSE IF mkdirCanSucceed(fsFiles, dir)
         THEN /\ fsDirs' = mkdirSync(fsDirs, dir)
              /\ pc' = IF more THEN "mkdir" ELSE "write"
              /\ i' = IF more THEN i + 1 ELSE 1
              /\ left' = left
         ELSE /\ fsDirs' = fsDirs
              /\ pc' = "failed"
              /\ i' = i
              /\ left' = Outcome(FALSE, fsDirs, fsFiles, log)
  /\ UNCHANGED <<req, app, srv, procs, lastWrite, gen, arg, fsFiles, log, wrote, start, prev>>

\* one fs.writeFileSync(<kind>FilePath, <kind>Content.trim()); an exception
\* it throws is caught nowhere and ends the process
WriteArtifact ==
  /\ pc = "write"
  /\ LET kind == writeOrder(gen)[i]
         file == filePath(gen, arg, kind)
         more == i < Len(writeOrder(gen))
     IN  IF writeCanSucceed(fsDirs, file)
         THEN /\ fsFiles' = writeFileSync(fsFiles, file, trim(content(gen, arg, kind)))
              /\ wrote' = Append(wrote, file)
              /\ pc' = IF more THEN "write" ELSE "report"
              /\ i' = IF more THEN i + 1 ELSE 1
              /\ left' = left
         ELSE /\ fsFiles' = fsFiles
              /\ wrote' = wrote
              /\ pc' = "failed"
              /\ i' = i
              /\ left' = Outcome(FALSE, fsDirs, fsFiles, log)
  /\ UNCHANGED <<req, app, srv, procs, lastWrite, gen, arg, fsDirs, log, start, prev>>

\* `CREATE ${formatPath(<kind>FilePath)} (${Buffer.byteLength(<kind>Content,
\* 'utf8')} bytes)`
reportLine(g, a, kind) ==
  [kind |-> kind,
   path |-> formatPath(filePath(g, a, kind)),
   bytes |-> byteLength(content(g, a, kind))]

\* the console.log calls that end the action
Report ==
  /\ pc = "report"
  /\ log' = [j \in 1..Len(reportOrder(gen)) |-> reportLine(gen, arg, reportOrder(gen)[j])]
  /\ pc' = "done"
  /\ left' = Outcome(TRUE, fsDirs, fsFiles, log')
  /\ UNCHANGED <<req, app, srv, procs, lastWrite, gen, arg, i, fsDirs, fsFiles, wrote, start, prev>>

Next == Plan \/ EnsureDir \/ WriteArtifact \/ Report

Spec == Init /\ [][Next]_vars

\* ------------------------------------------------- running the command again
\* the same command line is run once more, on the tree as it is now
Rerun ==
  /\ pc \in {"done", "failed", "edited"}
  /\ pc' = "start"
  /\ i' = 1
  /\ log' = <<>>
  /\ wrote' = <<>>
  /\ start' = Tree(fsDirs, fsFiles)
  /\ prev' = left
  /\ UNCHANGED <<req, app, srv, procs, lastWrite, gen, arg, fsDirs, fsFiles, left>>

UserLine == Item("user", "", <<>>, <<>>, <<>>)
IsEdited(c) == c # <<>> /\ Last(c).k = "user"

\* between two runs the user adds lines of their own to a generated file
UserEdit ==
  /\ pc \in {"done", "failed", "edited"}
  /\ pc' = "edited"
  /\ Cardinality({q \in DOMAIN fsFiles : IsEdited(fsFiles[q])}) < MaxEdited
  /\ \E p \in {wrote[k] : k \in 1..Len(wrote)} :
       /\ ~IsEdited(fsFiles[p])
       /\ fsFiles' = [fsFiles EXCEPT ![p] = fsFiles[p] \o <<UserLine, UserLine>>]
  /\ UNCHANGED <<req, app, srv, procs, lastWrite, gen, arg, i, fsDirs, log, wrote, start, left, prev>>

RerunInputs == Strings(MaxRerunLen) \cup ExampleInputs

InitRerun == InitWith(RerunInputs)

NextRerun == Next \/ Rerun \/ UserEdit

SpecRerun == InitRerun /\ [][NextRerun]_vars

\* ------------------------------------------------------- a write that throws
WriteFailsAndGoesOn ==
  /\ pc = "write"
  /\ pc' = IF i < Len(writeOrder(gen)) THEN "write" ELSE "report"
  /\ i' = IF i < Len(writeOrder(gen)) THEN i + 1 ELSE 1
  /\ left' = Outcome(FALSE, fsDirs, fsFiles, log)
  /\ UNCHANGED <<req, app, srv, procs, lastWrite, gen, arg, fsDirs, fsFiles, log, wrote, start, prev>>

\* fs.writeFileSync throws for a reason of the environment (EACCES, ENOSPC):
\* no try/catch surrounds the writes, the exception leaves the action and
\* program.parse, and the process ends
WriteFails ==
  /\ pc = "write"
  /\ pc' = "failed"
  /\ left' = Outcome(FALSE, fsDirs, fsFiles, log)
  /\ UNCHANGED <<req, app, srv, procs, lastWrite, gen, arg, i, fsDirs, fsFiles, log, wrote, start, prev>>

FaultInputs == Strings(MaxFaultLen) \cup ExampleInputs

InitFault == InitWith(FaultInputs)

NextFault == Next \/ WriteFails

SpecFault == InitFault /\ [][NextFault]_vars

\* ------------------------------------------- two invocations at the same time
(* Two processes run a generator on the same argument and the same tree.   *)
(* Each system call is a step: fs.existsSync, fs.mkdirSync, and the open   *)
(* (create or truncate) and the write that make up fs.writeFileSync.       *)
Procs == {1, 2}

Proc(g, at, n, raced) == [gen |-> g, pc |-> at, i |-> n, raced |-> raced]

\* what a file holds after `data` is written at offset 0 over `cur`
Overlay(cur, data) == data \o SubSeq(cur, Len(data) + 1, Len(cur))

AfterDir(p) ==
  IF procs[p].i < Len(dirList(procs[p].gen, arg))
  THEN Proc(procs[p].gen, "exists", procs[p].i + 1, procs[p].raced)
  ELSE Proc(procs[p].gen, "open", 1, procs[p].raced)

\* if (!fs.existsSync(dir))
ProcExists(p) ==
  /\ procs[p].pc = "exists"
  /\ LET dir == dirList(procs[p].gen, arg)[procs[p].i]
     IN  procs' = [procs EXCEPT ![p] =
                     IF existsSync(fsDirs, fsFiles, dir) THEN AfterDir(p)
                     ELSE Proc(procs[p].gen, "mkdir", procs[p].i, procs[p].raced)]
  /\ UNCHANGED <<gen, arg, pc, i, fsDirs, fsFiles, log, wrote, start, left, prev, lastWrite, req, app, srv>>

ProcMkdirNotRecursive(p) ==
  /\ procs[p].pc = "mkdir"
  /\ LET dir == dirList(procs[p].gen, arg)[procs[p].i]
     IN  IF mkdirCanSucceed(fsFiles, dir) /\ ~IsDirectory(fsDirs, dir)
         THEN /\ fsDirs' = mkdirSync(fsDirs, dir)
              /\ procs' = [procs EXCEPT ![p] = AfterDir(p)]
         ELSE /\ fsDirs' = fsDirs
              /\ procs' = [procs EXCEPT ![p] =
                             Proc(procs[p].gen, "mkdir failed", procs[p].i,
                                  IsDirectory(fsDirs, dir))]
  /\ UNCHANGED <<gen, arg, pc, i, fsFiles, log, wrote, start, left, prev, lastWrite, req, app, srv>>

\* fs.mkdirSync(dir, { recursive: true }): a directory that exists by now is
\* no error
ProcMkdir(p) ==
  /\ procs[p].pc = "mkdir"
  /\ LET dir == dirList(procs[p].gen, arg)[procs[p].i]
     IN  IF mkdirCanSucceed(fsFiles, dir)
         THEN /\ fsDirs' = mkdirSync(fsDirs, dir)
              /\ procs' = [procs EXCEPT ![p] =
                             [AfterDir(p) EXCEPT !.raced = @ \/ IsDirectory(fsDirs, dir)]]
         ELSE /\ fsDirs' = fsDirs
              /\ procs' = [procs EXCEPT ![p] =
                             Proc(procs[p].gen, "mkdir failed", procs[p].i, procs[p].raced)]
  /\ UNCHANGED <<gen, arg, pc, i, fsFiles, log, wrote, start, left, prev, lastWrite, req, app, srv>>

\* fs.writeFileSync, first half: open(file, 'w') creates or truncates the file
ProcOpen(p) ==
  /\ procs[p].pc = "open"
  /\ LET file == filePath(procs[p].gen, arg, writeOrder(procs[p].gen)[procs[p].i])
     IN  IF writeCanSucceed(fsDirs, file)
         THEN /\ fsFiles' = writeFileSync(fsFiles, file, <<>>)
              /\ procs' = [procs EXCEPT ![p].pc = "write"]
         ELSE /\ fsFiles' = fsFiles
              /\ procs' = [procs EXCEPT ![p].pc = "write failed"]
  /\ UNCHANGED <<gen, arg, pc, i, fsDirs, log, wrote, start, left, prev, lastWrite, req, app, srv>>

\* fs.writeFileSync, second half: the content is written from offset 0
ProcWrite(p) ==
  /\ procs[p].pc = "write"
  /\ LET g == procs[p].gen
         kind == writeOrder(g)[procs[p].i]
         file == filePath(g, arg, kind)
     IN  /\ fsFiles' = [fsFiles EXCEPT ![file] = Overlay(@, trim(content(g, arg, kind)))]
         /\ lastWrite' = [q \in DOMAIN lastWrite \cup {file} |->
                            IF q = file THEN p ELSE lastWrite[q]]
         /\ procs' = [procs EXCEPT ![p] =
                        IF procs[p].i < Len(writeOrder(g))
                        THEN Proc(g, "open", procs[p].i + 1, procs[p].raced)
                        ELSE Proc(g, "report", 1, procs[p].raced)]
  /\ UNCHANGED <<gen, arg, pc, i, fsDirs, log, wrote, start, left, prev, req, app, srv>>

\* the console.log calls
ProcReport(p) ==
  /\ procs[p].pc = "report"
  /\ procs' = [procs EXCEPT ![p].pc = "done"]
  /\ UNCHANGED <<gen, arg, pc, i, fsDirs, fsFiles, log, wrote, start, left, prev, lastWrite, req, app, srv>>

\* the resource path a, a/a, a/a/a, ... of a given depth
NestedName(d) == join([k \in 1..(d + 1) |-> <<"a">>])

RaceInputs == {NestedName(d) : d \in 0..MaxRaceDepth} \cup {UserName}

\* the two processes are alike: a pair of generators is taken in one order
GenIndex(g) ==
  CASE g = "FlatSplit" -> 1
    [] g = "FlatColocated" -> 2
    [] g = "NestedSplit" -> 3
    [] g = "NestedColocated" -> 4

InitRace ==
  /\ gen \in Generators
  /\ arg \in RaceInputs
  /\ pc = "race"
  /\ i = 1
  /\ fsDirs = InitialDirs
  /\ fsFiles = InitialFiles
  /\ log = <<>>
  /\ wrote = <<>>
  /\ start = Tree(InitialDirs, InitialFiles)
  /\ left = NoRun
  /\ prev = NoRun
  /\ \E g \in {h \in Generators : GenIndex(h) >= GenIndex(gen)} :
       procs = <<Proc(gen, "exists", 1, FALSE), Proc(g, "exists", 1, FALSE)>>
  /\ lastWrite = <<>>
  /\ req = NoRequest
  /\ app = NoApp
  /\ srv = NoServer

NextRace ==
  \E p \in Procs :
    ProcExists(p) \/ ProcMkdir(p) \/ ProcOpen(p) \/ ProcWrite(p) \/ ProcReport(p)

SpecRace == InitRace /\ [][NextRace]_vars

\* ------------------------------------------------- reading generated files
\* the segments of an import specifier
SpecifierSegments(spec) == split(spec)

\* number of '..' segments of a specifier
ParentSteps(spec) ==
  Cardinality({k \in 1..Len(split(spec)) : split(spec)[k] = DOTDOT})

\* number of '..' segments a specifier begins with
LeadingParentSteps(spec) ==
  LET segs == split(spec)
      stop == {k \in 1..Len(segs) : segs[k] # DOTDOT}
  IN  IF stop = {} THEN Len(segs) ELSE Min(stop) - 1

\* module resolution of a relative specifier found in the file `from`
Resolve(from, spec) == Normalize(Dirname(from) \o split(spec))

\* ... to the TypeScript file of that name
ResolveFile(from, spec) ==
  LET m == Resolve(from, spec)
  IN  IF m = <<>> THEN <<>> ELSE Front(m) \o <<Last(m) \o <<".ts">>>>

SharedRoots == {"helpers", "handlers", "utils"}
IsImport(it) == it.k = "import"
IsShared(it) == IsImport(it) /\ \E k \in 1..Len(it.str) : it.str[k] \in SharedRoots
ItemsOf(c) == {c[k] : k \in 1..Len(c)}
Written == {wrote[k] : k \in 1..Len(wrote)}

\* number of segments before the leaf of the input path
Depth(a) == Cardinality({k \in 1..Len(a) : a[k] = SEP})

\* the file of one kind, when this invocation has written it
Has(kind) == filePath(gen, arg, kind) \in Written

\* ------------------------------------------- requests to a generated router
(* The route file registers its table on an Express Router; a request is    *)
(* dispatched layer by layer in the order of registration, and within the   *)
(* matching route handler by handler, each handler running only when the    *)
(* one before it called next().                                             *)
HexChars ==
  {"0", "1", "2", "3", "4", "5", "6", "7", "8", "9",
   "a", "b", "c", "d", "e", "f", "A", "B", "C", "D", "E", "F"}

\* validator's isMongoId: 24 hexadecimal characters
isMongoId(id) == Len(id) = 24 /\ \A k \in 1..Len(id) : id[k] \in HexChars

\* zod<Cap>Schema.pick({ id: true }).safeParse({ id: req.params.id }).success
safeParse(id) == isMongoId(id)

ZodErrorHandler == <<"zodErrorHandler">>
PathNotFound == <<"PathNotFound">>

\* the router.<method>(path, ...handlers) calls of a route file, in order
Layers(c) == SelectSeq(c, LAMBDA it : it.k = "route")

\* the router is not strict: one trailing '/' of the request path is ignored
StripTrailingSlash(path) ==
  IF Len(path) > 1 /\ Last(path) = SEP THEN Front(path) ELSE path

\* a layer matches a request of its method whose path has the segments of
\* the route path, letters compared without case, ':id' standing for any
\* segment that is not empty
Matches(route, method, path) ==
  LET ps == split(route.str)
      rs == split(StripTrailingSlash(path))
  IN  /\ route.m = method
      /\ Len(ps) = Len(rs)
      /\ \A k \in 1..Len(ps) :
           IF ps[k] = <<":id">> THEN rs[k] # <<>>
           ELSE toLowerCase(ps[k]) = toLowerCase(rs[k])

\* req.params.id
ParamId(route, path) ==
  LET ps == split(route.str)
      rs == split(StripTrailingSlash(path))
      at == {k \in 1..Len(ps) : ps[k] = <<":id">>}
  IN  IF at = {} THEN <<>> ELSE rs[Min(at)]

\* the table of the route file this invocation wrote
Table == Layers(fsFiles[filePath(gen, arg, "route")])

IsValidator(name) == name = validateIdName(capitalizedResourceName(gen, arg))

Methods == {"post", "put", "delete", "get"}
Verbs == {"create-", "update-", "delete-", "get-"}
ValidId == [k \in 1..24 |-> "a"]
Tails ==
  {<<>>, <<SEP, "many">>, <<SEP, "many", SEP>>, <<SEP>> \o ValidId, <<SEP, "a">>}
RequestPaths(rn) == {<<SEP, v>> \o rn \o t : v \in Verbs, t \in Tails}

\* a request arrives at the router of the generated route file
Receive ==
  /\ pc = "done"
  /\ req.status = "none"
  /\ \E m \in Methods, path \in RequestPaths(resourceName(gen, arg)) :
       req' = [NoRequest EXCEPT !.method = m, !.path = path, !.layer = 1,
                                !.status = "routing"]
  /\ UNCHANGED <<gen, arg, pc, i, fsDirs, fsFiles, log, wrote, start, left, prev,
                 procs, lastWrite, app, srv>>

\* the layer does not match: the next one is tried
Pass ==
  /\ req.status = "routing"
  /\ req.layer <= Len(Table)
  /\ ~Matches(Table[req.layer], req.method, req.path)
  /\ req' = [req EXCEPT !.layer = @ + 1]
  /\ UNCHANGED <<gen, arg, pc, i, fsDirs, fsFiles, log, wrote, start, left, prev,
                 procs, lastWrite, app, srv>>

\* the first layer that matches takes the request
Enter ==
  /\ req.status = "routing"
  /\ req.layer <= Len(Table)
  /\ Matches(Table[req.layer], req.method, req.path)
  /\ req' = [req EXCEPT !.status = "in route", !.h = 1,
                        !.id = ParamId(Table[req.layer], req.path)]
  /\ UNCHANGED <<gen, arg, pc, i, fsDirs, fsFiles, log, wrote, start, left, prev,
                 procs, lastWrite, app, srv>>

\* no layer of the router matched: the request falls through to PathNotFound
NotFound ==
  /\ req.status = "routing"
  /\ req.layer > Len(Table)
  /\ req' = [req EXCEPT !.status = "responded", !.trace = Append(@, PathNotFound)]
  /\ UNCHANGED <<gen, arg, pc, i, fsDirs, fsFiles, log, wrote, start, left, prev,
                 procs, lastWrite, app, srv>>

ValidateAlwaysNext ==
  /\ req.status = "in route"
  /\ IsValidator(Table[req.layer].names[req.h])
  /\ req' = [req EXCEPT !.trace = Append(@, Table[req.layer].names[req.h]),
                        !.h = @ + 1]
  /\ UNCHANGED <<gen, arg, pc, i, fsDirs, fsFiles, log, wrote, start, left, prev,
                 procs, lastWrite, app, srv>>

\* validate<Cap>Id: if (!success) return zodErrorHandler(req, res, error);
\* return next();
Validate ==
  /\ req.status = "in route"
  /\ IsValidator(Table[req.layer].names[req.h])
  /\ req' = IF safeParse(req.id)
            THEN [req EXCEPT !.trace = Append(@, Table[req.layer].names[req.h]),
                             !.h = @ + 1]
            ELSE [req EXCEPT !.trace = @ \o <<Table[req.layer].names[req.h],
                                              ZodErrorHandler>>,
                             !.status = "responded"]
  /\ UNCHANGED <<gen, arg, pc, i, fsDirs, fsFiles, log, wrote, start, left, prev,
                 procs, lastWrite, app, srv>>

\* the controller handler runs and sends the response
Handle ==
  /\ req.status = "in route"
  /\ ~IsValidator(Table[req.layer].names[req.h])
  /\ req' = [req EXCEPT !.trace = Append(@, Table[req.layer].names[req.h]),
                        !.status = "responded"]
  /\ UNCHANGED <<gen, arg, pc, i, fsDirs, fsFiles, log, wrote, start, left, prev,
                 procs, lastWrite, app, srv>>

ServeInputs == Strings(MaxServeLen) \cup {UserName}

InitServe == InitWith(ServeInputs)

NextServe == Next \/ Receive \/ Pass \/ Enter \/ NotFound \/ Validate \/ Handle

SpecServe == InitServe /\ [][NextServe]_vars

\* ------------------------------------------- start-up of the application
(* Split-mode generators are run one after another on the same tree, then  *)
(* the application module is evaluated: it loads the route files under     *)
(* src/routes and registers PathNotFound after them.  Evaluation is        *)
(* synchronous, one step.  `app.stack` lists what app.use was given, in    *)
(* order.                                                                  *)
SplitGenerators == {g \in Generators : IsSplit(g)}

ApiPrefix == <<"/api/v1">>
IndexTs == <<"index", ".ts">>
IndexJs == <<"index", ".js">>
routesPath == <<SRC, ROUTES>>

Mount(prefix, file) == [prefix |-> prefix, file |-> file]
Loaded(stack, ok) == [stack |-> stack, ok |-> ok]

\* fs.readdirSync(dir): the names directly under dir
readdirSync(dir) ==
  {q[Len(dir) + 1] : q \in {r \in fsDirs \cup DOMAIN fsFiles :
                              Len(r) > Len(dir) /\ SubSeq(r, 1, Len(dir)) = dir}}

\* require(file): evaluating the route file throws when one of its imports
\* of generated files resolves to no file
requireSucceeds(file) ==
  \A it \in ItemsOf(fsFiles[file]) :
    (IsImport(it) /\ ~IsShared(it)) => ResolveFile(file, it.str) \in DOMAIN fsFiles

RECURSIVE loadRoutes(_, _, _)
RECURSIVE loadItems(_, _, _, _)

\* one turn of readdirSync(basePath).forEach((item) => ...); the order of
\* the items is the file system's
loadItems(items, basePath, baseRoute, acc) ==
  IF items = {} \/ ~acc.ok THEN acc
  ELSE LET item == CHOOSE x \in items : TRUE
           itemPath == Append(basePath, item)
           routePrefix == baseRoute \o <<SEP>> \o item
           after ==
             IF IsDirectory(fsDirs, itemPath)
             THEN loadRoutes(itemPath, routePrefix, acc)
             ELSE IF item = IndexTs \/ item = IndexJs
             THEN IF requireSucceeds(itemPath)
                  THEN Loaded(Append(acc.stack, Mount(baseRoute, itemPath)), TRUE)
                  ELSE Loaded(acc.stack, FALSE)
             ELSE acc
       IN  loadItems(items \ {item}, basePath, baseRoute, after)

\* const loadRoutes = (basePath, baseRoute) => { if (fs.existsSync(basePath)) ...
loadRoutes(basePath, baseRoute, acc) ==
  IF existsSync(fsDirs, fsFiles, basePath)
  THEN IF IsDirectory(fsDirs, basePath)
       THEN loadItems(readdirSync(basePath), basePath, baseRoute, acc)
       ELSE Loaded(acc.stack, FALSE)
  ELSE acc

RECURSIVE loadFolders(_, _)
\* fs.readdirSync(routesPath).forEach((folder) => { if (isDirectory)
\* app.use(`/api/v1/${folder}`, require(path.join(folderPath, 'index.ts'))) })
loadFolders(folders, acc) ==
  IF folders = {} \/ ~acc.ok THEN acc
  ELSE LET folder == CHOOSE x \in folders : TRUE
           folderPath == Append(routesPath, folder)
           routeFile == Append(folderPath, IndexTs)
           after ==
             IF IsDirectory(fsDirs, folderPath)
             THEN IF routeFile \in DOMAIN fsFiles /\ requireSucceeds(routeFile)
                  THEN Loaded(Append(acc.stack,
                                     Mount(ApiPrefix \o <<SEP>> \o folder, routeFile)),
                              TRUE)
                  ELSE Loaded(acc.stack, FALSE)
             ELSE acc
       IN  loadFolders(folders \ {folder}, after)

\* the application after its module was evaluated: an exception leaves the
\* process without an application, otherwise PathNotFound is registered last
Started(loader, loaded) ==
  [app EXCEPT !.loader = loader,
              !.status = IF loaded.ok THEN "up" ELSE "error",
              !.mounts = IF loaded.ok
                         THEN Append(loaded.stack, Mount(<<>>, PathNotFound))
                         ELSE loaded.stack]

LoadInputs ==
  {NestedName(d) : d \in 0..MaxLoadDepth}
    \cup {UserName, <<".", ".", "/", "a">>, <<"a", "/", ".", ".">>}

\* another split-mode command is run on the tree the last one left
NextCommand ==
  /\ pc \in {"done", "failed"}
  /\ app.status = "none"
  /\ Len(app.cmds) + 1 < MaxCommands
  /\ \E g \in SplitGenerators, a \in LoadInputs :
       /\ gen' = g
       /\ arg' = a
  /\ pc' = "start"
  /\ i' = 1
  /\ log' = <<>>
  /\ wrote' = <<>>
  /\ start' = Tree(fsDirs, fsFiles)
  /\ prev' = left
  /\ app' = [app EXCEPT !.cmds = Append(@, <<gen, arg>>)]
  /\ UNCHANGED <<fsDirs, fsFiles, left, procs, lastWrite, req, srv>>

\* loadRoutes(routesPath, '/api/v1'); ...; app.use(PathNotFound)
StartRecursive ==
  /\ pc \in {"done", "failed"}
  /\ app.status = "none"
  /\ app' = Started("recursive", loadRoutes(routesPath, ApiPrefix, Loaded(<<>>, TRUE)))
  /\ UNCHANGED <<gen, arg, pc, i, fsDirs, fsFiles, log, wrote, start, left, prev,
                 procs, lastWrite, req, srv>>

\* fs.readdirSync(routesPath).forEach(...); ...; app.use(PathNotFound):
\* readdirSync throws when src/routes does not exist
StartFlat ==
  /\ pc \in {"done", "failed"}
  /\ app.status = "none"
  /\ app' = Started("flat",
                    IF IsDirectory(fsDirs, routesPath)
                    THEN loadFolders(readdirSync(routesPath), Loaded(<<>>, TRUE))
                    ELSE Loaded(<<>>, FALSE))
  /\ UNCHANGED <<gen, arg, pc, i, fsDirs, fsFiles, log, wrote, start, left, prev,
                 procs, lastWrite, req, srv>>

InitLoad ==
  /\ InitWith(LoadInputs)
  /\ gen \in SplitGenerators

NextLoad == Next \/ NextCommand \/ StartRecursive \/ StartFlat

SpecLoad == InitLoad /\ [][NextLoad]_vars

\* ------------------------------------------------------ the server process
(* let server; main(); process.on('unhandledRejection', ...);               *)
(* process.on('uncaughtException', ...).  main() runs up to its await       *)
(* before the two handlers are registered; everything after that is an      *)
(* event of the process: the database connection settles, connections are   *)
(* accepted and end, a promise is rejected with no handler, an exception    *)
(* is thrown with no catch.  A handler runs to its end in one step.         *)
\* process.exit(code)
Exit(s, code, by) == [s EXCEPT !.exited = TRUE, !.code = code, !.by = by, !.pc = "exited"]

OtherVars ==
  <<gen, arg, pc, i, fsDirs, fsFiles, log, wrote, start, left, prev, procs, lastWrite,
    req, app>>

\* server = app.listen(config.PORT, ...); mongoose.connect(...) is called
\* and main() waits for it
ListenAndConnect ==
  /\ srv.pc = "load"
  /\ srv' = [srv EXCEPT !.pc = "running", !.server = "listening", !.db = "connecting"]
  /\ UNCHANGED OtherVars

\* app.listen or mongoose.connect throws: catch (error) { process.exit(1) }
StartupThrows ==
  /\ srv.pc = "load"
  /\ \E listened \in BOOLEAN :
       srv' = Exit([srv EXCEPT !.failed = TRUE,
                               !.server = IF listened THEN "listening" ELSE @],
                   1, "catch in main")
  /\ UNCHANGED OtherVars

\* await mongoose.connect(...) is fulfilled
ConnectSucceeds ==
  /\ srv.pc = "running"
  /\ srv.db = "connecting"
  /\ srv' = [srv EXCEPT !.db = "connected"]
  /\ UNCHANGED OtherVars

\* await mongoose.connect(...) is rejected: catch (error) { process.exit(1) }
ConnectFails ==
  /\ srv.pc = "running"
  /\ srv.db = "connecting"
  /\ srv' = Exit([srv EXCEPT !.db = "failed", !.failed = TRUE], 1, "catch in main")
  /\ UNCHANGED OtherVars

\* a listening server accepts a connection
Accept ==
  /\ srv.pc = "running"
  /\ srv.server = "listening"
  /\ srv.conns < MaxConns
  /\ srv' = [srv EXCEPT !.conns = @ + 1]
  /\ UNCHANGED OtherVars

\* a connection ends
ConnectionEnds ==
  /\ srv.pc = "running"
  /\ srv.conns > 0
  /\ srv' = [srv EXCEPT !.conns = @ - 1]
  /\ UNCHANGED OtherVars

UnhandledRejectionExitsAtOnce ==
  /\ srv.pc = "running"
  /\ srv.cbs < MaxRejections
  /\ srv' = Exit([srv EXCEPT !.failed = TRUE], 1, "unhandledRejection")
  /\ UNCHANGED OtherVars

\* process.on('unhandledRejection'): if (server) server.close(() =>
\* process.exit(1)) else process.exit(1); close() stops the server from
\* accepting and keeps the callback for its 'close' event
UnhandledRejection ==
  /\ srv.pc = "running"
  /\ srv.cbs < MaxRejections
  /\ srv' = IF srv.server # "undefined"
            THEN [srv EXCEPT !.failed = TRUE, !.cbs = @ + 1,
                             !.server = IF @ = "listening" THEN "closing" ELSE @]
            ELSE Exit([srv EXCEPT !.failed = TRUE], 1, "unhandledRejection")
  /\ UNCHANGED OtherVars

\* the server has stopped accepting and its last connection has ended: it
\* emits 'close' and the callback given to close() runs process.exit(1)
Closed ==
  /\ srv.pc = "running"
  /\ srv.server = "closing"
  /\ srv.conns = 0
  /\ srv' = Exit([srv EXCEPT !.server = "closed"], 1, "close callback")
  /\ UNCHANGED OtherVars

\* process.on('uncaughtException'): process.exit(1)
UncaughtException ==
  /\ srv.pc = "running"
  /\ srv' = Exit([srv EXCEPT !.failed = TRUE], 1, "uncaughtException")
  /\ UNCHANGED OtherVars

InitServer ==
  /\ InitWith({UserName})
  /\ gen = "NestedSplit"

NextServer ==
  \/ ListenAndConnect \/ StartupThrows \/ ConnectSucceeds \/ ConnectFails
  \/ Accept \/ ConnectionEnds \/ UnhandledRejection \/ Closed \/ UncaughtException

SpecServer == InitServer /\ [][NextServer]_vars

\* an open connection ends in the end, and an event that is due is delivered
SpecServerFair ==
  SpecServer /\ WF_vars(ConnectionEnds) /\ WF_vars(Closed)

\* ================================================================== claims

C2_ImportsResolveToTheirTargets ==
  (IsNested(gen) /\ pc = "done") =>
    \A p \in Written : \A it \in ItemsOf(fsFiles[p]) :
      /\ IsShared(it) =>
           Resolve(p, it.str)
             = <<SRC>> \o SubSeq(split(it.str), LeadingParentSteps(it.str) + 1,
                                 Len(split(it.str)))
      /\ (gen = "NestedSplit" /\ p = routeFilePath(gen, arg) /\ IsImport(it)) =>
           /\ ResolveFile(p, it.str) \in Written
           /\ ResolveFile(p, it.str)
                = IF Len(it.names) = 8 THEN filePath(gen, arg, "controller")
                  ELSE filePath(gen, arg, "validation")

\* the inputs that are `a` up to the case of their letters
SameUpToCase(a) == {o \in Inputs : toLowerCase(o) = toLowerCase(a)}
TargetFiles(g, a) == {filePath(g, a, writeOrder(g)[k]) : k \in 1..Len(writeOrder(g))}
TargetDirs(g, a) == {Dirname(f) : f \in TargetFiles(g, a)}
FileName(leaf, kind) ==
  IF kind = "route" /\ IsSplit(gen) THEN <<"index", ".ts">> ELSE leaf \o Suffix(kind)
TreeOf(kind) == IF kind = "route" /\ IsSplit(gen) THEN ROUTES ELSE MODULES

\* C3: the planner splits the input on '/'; the lowercased last segment names
\* every file and the leaf directory, the segments before it nest the
\* directories in their order and case; so an input that differs only in the
\* case of the leaf targets the same files, and one that differs in the case
\* of an earlier segment targets different directories.
C3_LeafFoldedSegmentsKept ==
  (IsNested(gen) /\ pc = "done") =>
    LET leaf == toLowerCase(Last(split(arg)))
        segs == Front(split(arg))
    IN  /\ \A k \in 1..Len(writeOrder(gen)) :
             wrote[k] = PathJoin(<<SRC, TreeOf(writeOrder(gen)[k])>> \o segs
                                 \o <<leaf, FileName(leaf, writeOrder(gen)[k])>>)
        /\ \A o \in SameUpToCase(arg) :
             IF Front(split(o)) = segs
             THEN TargetFiles(gen, o) = Written
             ELSE TargetDirs(gen, o) \cap {Dirname(f) : f \in Written} = {}

InTree(p, tree) == Len(p) >= 2 /\ p[1] = SRC /\ p[2] = tree

\* C4: under the split-route layout the route file is written to
\* routes/<segments>/<resourceName>/index.ts, the other four files to
\* modules/<segments>/<resourceName>/<resourceName>.<kind>.ts, and no file of
\* one tree is written into the other tree.
C4_SplitTreesStaySeparate ==
  IsSplit(gen) =>
    LET leaf == resourceName(gen, arg)
        segs == nestedFolders(gen, arg)
    IN  \A k \in 1..Len(wrote) :
          LET kind == writeOrder(gen)[k]
          IN  /\ wrote[k] = Normalize(<<SRC, TreeOf(kind)>> \o segs \o split(leaf)
                                      \o split(FileName(leaf, kind)))
              /\ kind = "route" => ~InTree(wrote[k], MODULES)
              /\ kind # "route" => ~InTree(wrote[k], ROUTES)

\* the imports of one generated file that are not of helpers, handlers or utils
SiblingImports(p) == {it \in ItemsOf(fsFiles[p]) : IsImport(it) /\ ~IsShared(it)}

UserFile(kind) == <<SRC, MODULES, UserName, UserName \o <<"." \o kind, ".ts">>>>

\* C6: for the input "user" a colocated generator succeeds, writes exactly
\* the six files route, controller, model, interface, validation and service
\* of modules/user, and prints exactly six report lines, one for each file.
C6_UserYieldsSixFilesAndLines ==
  (~IsSplit(gen) /\ arg = UserName) =>
    /\ pc # "failed"
    /\ pc \in {"report", "done"} =>
         /\ Len(wrote) = 6
         /\ Written = {UserFile(k) : k \in Kinds}
         /\ \A p \in DOMAIN fsFiles : p \notin DOMAIN start.files => p \in Written
    /\ pc = "done" =>
         /\ Len(log) = 6
         /\ {log[j].path : j \in 1..Len(log)} = {join(UserFile(k)) : k \in Kinds}

C6_Witness ==
  /\ gen = "FlatColocated"
  /\ arg = UserName
  /\ pc = "done"
  /\ Len(log) = 6

IsServiceFile(p) == Len(Last(p)) >= 2 /\ Last(p)[Len(Last(p)) - 1] = ".service"

\* C7: a split generator that succeeds for the resource name n has written
\* src/routes/n/index.ts and the controller, model, interface and validation
\* files of src/modules/n, five files and no other; a service file is written
\* by the colocated generators and only by them.
C7_SplitWritesFiveFiles ==
  /\ (IsSplit(gen) /\ (gen = "FlatSplit" \/ Depth(arg) = 0)
        /\ pc \in {"report", "done"}) =>
       LET n == toLowerCase(arg)
           inModules(kind) ==
             Normalize(<<SRC, MODULES>> \o split(n) \o split(n \o <<"." \o kind, ".ts">>))
           five == {Normalize(<<SRC, ROUTES>> \o split(n) \o <<<<"index", ".ts">>>>),
                    inModules("controller"), inModules("model"),
                    inModules("interface"), inModules("validation")}
       IN  /\ Len(wrote) = 5
           /\ Cardinality(five) = 5
           /\ Written = five
           /\ DOMAIN fsFiles = DOMAIN start.files \cup five
  /\ IsSplit(gen) => \A p \in Written : ~IsServiceFile(p)
  /\ (~IsSplit(gen) /\ pc \in {"report", "done"}) => \E p \in Written : IsServiceFile(p)

C7_Witness ==
  /\ gen = "FlatSplit"
  /\ arg = <<"A">>
  /\ pc = "done"
  /\ <<SRC, ROUTES, <<"a">>, <<"index", ".ts">>>> \in DOMAIN fsFiles

MethodOf(it) ==
  CASE it.m = "post" -> "POST"
    [] it.m = "put" -> "PUT"
    [] it.m = "delete" -> "DELETE"
    [] it.m = "get" -> "GET"

\* the route registrations of a content, as <<method, path>>, in text order
Registrations(c) ==
  LET routes == SelectSeq(c, LAMBDA it : it.k = "route")
  IN  [k \in 1..Len(routes) |-> <<MethodOf(routes[k]), routes[k].str>>]

\* C8: in every generator and for every resource name the route file
\* registers exactly eight routes, in the order POST /create-n,
\* POST /create-n/many, PUT /update-n/many, PUT /update-n/:id,
\* DELETE /delete-n/many, DELETE /delete-n/:id, GET /get-n/many,
\* GET /get-n/:id.
C8_EightRoutesManyBeforeId ==
  Has("route") =>
    LET n == IF IsNested(gen) THEN toLowerCase(Last(split(arg))) ELSE toLowerCase(arg)
        at(verb, tail) == <<"/", verb>> \o n \o tail
    IN  Registrations(fsFiles[filePath(gen, arg, "route")])
          = << <<"POST", at("create-", <<>>)>>,
               <<"POST", at("create-", <<"/", "many">>)>>,
               <<"PUT", at("update-", <<"/", "many">>)>>,
               <<"PUT", at("update-", <<"/", ":id">>)>>,
               <<"DELETE", at("delete-", <<"/", "many">>)>>,
               <<"DELETE", at("delete-", <<"/", ":id">>)>>,
               <<"GET", at("get-", <<"/", "many">>)>>,
               <<"GET", at("get-", <<"/", ":id">>)>> >>

C8_Witness ==
  /\ pc = "done"
  /\ gen = "NestedColocated"
  /\ Depth(arg) = 1
  /\ Len(Registrations(fsFiles[filePath(gen, arg, "route")])) = 8

Targets == TargetFiles(gen, arg)

\* C9: whatever a target file held before, after a successful invocation it
\* holds exactly the content just written, with nothing of the earlier
\* content left, and no other file has been created or changed.
C9_WriteReplacesWholeFile ==
  pc = "done" =>
    /\ \A k \in 1..Len(writeOrder(gen)) :
         LET kind == writeOrder(gen)[k]
         IN  /\ filePath(gen, arg, kind) \in DOMAIN fsFiles
             /\ fsFiles[filePath(gen, arg, kind)] = trim(content(gen, arg, kind))
    /\ \A p \in Targets : \A it \in ItemsOf(fsFiles[p]) : it.k # "user"
    /\ DOMAIN fsFiles = DOMAIN start.files \cup Targets
    /\ \A q \in DOMAIN start.files \ Targets : fsFiles[q] = start.files[q]

C9_Witness ==
  /\ pc = "done"
  /\ \E p \in Targets :
       /\ p \in DOMAIN start.files
       /\ IsEdited(start.files[p])
       /\ Len(start.files[p]) > Len(fsFiles[p])
       /\ fsFiles[p] # start.files[p]

\* C10: run a second time on the tree the first, successful run left, the
\* same generator with the same input raises no error, and leaves the same
\* directories, the same files with the same content and the same report.
C10_SecondRunChangesNothing ==
  (prev.some /\ prev.ok /\ start = prev.tree) =>
    /\ pc # "failed"
    /\ \A d \in start.dirs : d \in fsDirs
    /\ pc = "done" =>
         /\ Tree(fsDirs, fsFiles) = prev.tree
         /\ log = prev.log

C10_Witness ==
  /\ prev.some /\ prev.ok /\ start = prev.tree
  /\ pc = "done"
  /\ Depth(arg) = 2
  /\ moduleDir(gen, arg) \in start.dirs
  /\ Len(log) >= 5

\* the kinds in the order of their declaration
KindOrder == <<"route", "controller", "model", "interface", "validation", "service">>

\* C11: the report has one line for each file written, in the order in which
\* the files were written, and that order is route, controller, model,
\* interface, validation, service, less the kinds the layout does not have.
C11_ReportFollowsWriteOrder ==
  pc = "done" =>
    /\ Len(log) = Len(wrote)
    /\ \A j \in 1..Len(log) : log[j].path = formatPath(wrote[j])
    /\ [j \in 1..Len(log) |-> log[j].kind]
         = SelectSeq(KindOrder, LAMBDA k : k # "service" \/ ~IsSplit(gen))

\* C12: the byte count of every report line is the UTF-8 byte length of the
\* content the file of that line holds after the invocation.
C12_ReportedBytesAreWrittenBytes ==
  pc = "done" =>
    \A j \in 1..Len(log) :
      log[j].bytes = byteLength(fsFiles[filePath(gen, arg, log[j].kind)])

\* the last segment of the raw input is empty: the input is empty, ends with
\* a separator or holds separators only
LeafIsEmpty(a) == Last(split(a)) = <<>>

\* C13: an invocation of a nested generator whose input is empty, ends with a
\* separator or holds separators only fails before it creates a directory or
\* writes a file.
C13_EmptyLeafIsRejected ==
  (IsNested(gen) /\ LeafIsEmpty(arg)) =>
    /\ pc \notin {"write", "report", "done"}
    /\ fsDirs = start.dirs
    /\ fsFiles = start.files
    /\ wrote = <<>>

HasSeparator(str) == \E k \in 1..Len(str) : str[k] = SEP

\* C14: whenever a generator has written a file, the resourceName its file
\* names are built from is not empty and holds no separator; an input whose
\* resourceName is empty or holds a separator is rejected before a directory
\* is created or a file written.
C14_ResourceNameIsAPlainName ==
  LET rn == resourceName(gen, arg)
  IN  /\ wrote # <<>> => (rn # <<>> /\ ~HasSeparator(rn))
      /\ (rn = <<>> \/ HasSeparator(rn)) =>
           /\ pc \notin {"write", "report", "done"}
           /\ fsDirs = start.dirs
           /\ fsFiles = start.files

RECURSIVE StripStart(_)
StripStart(str) == IF str # <<>> /\ Head(str) = " " THEN StripStart(Tail(str)) ELSE str

RECURSIVE StripEnd(_)
StripEnd(str) == IF str # <<>> /\ Last(str) = " " THEN StripEnd(Front(str)) ELSE str

\* the raw name without the whitespace around it
Stripped(str) == StripEnd(StripStart(str))

\* C18: the resourceName is the trimmed, lowercased name: an input with
\* whitespace before or after the name gives the resourceName, the files and
\* the directories of the same input without that whitespace.
C18_NameIsTrimmedAndFolded ==
  pc = "done" =>
    /\ resourceName(gen, arg) = toLowerCase(Stripped(Last(split(Stripped(arg)))))
    /\ Written = TargetFiles(gen, Stripped(arg))
    /\ {Dirname(f) : f \in Written} = TargetDirs(gen, Stripped(arg))

\* the names a content exports
Exported(c) == {it.names[1] : it \in {x \in ItemsOf(c) : x.k = "export"}}

\* C17: for a resource name that is not empty, the capitalized name put into
\* the identifiers of the generated files is the upper-cased first character
\* of the lowercased name followed by the rest of the lowercased name, and
\* every generator that computes the same lowercased name computes the same
\* capitalized name.
C17_CapitalizedIsUpperFirst ==
  LET rn == IF IsNested(gen) THEN toLowerCase(Last(split(arg))) ELSE toLowerCase(arg)
      cap == <<UpperChar(rn[1])>> \o SubSeq(rn, 2, Len(rn))
  IN  rn # <<>> =>
        /\ Has("model") => Exported(fsFiles[filePath(gen, arg, "model")]) = {cap}
        /\ Has("interface") =>
             Exported(fsFiles[filePath(gen, arg, "interface")]) = {<<"T">> \o cap}
        /\ Has("controller") =>
             <<"create">> \o cap \in Exported(fsFiles[filePath(gen, arg, "controller")])
        /\ Has("validation") =>
             Exported(fsFiles[filePath(gen, arg, "validation")])
               = {<<"validate">> \o cap \o <<"Id">>}
        /\ \A g \in Generators :
             resourceName(g, arg) = rn => capitalizedResourceName(g, arg) = cap

C17_Witness ==
  /\ pc = "done"
  /\ arg = <<"a", "A">>
  /\ Exported(fsFiles[filePath(gen, arg, "model")]) = {<<"A", "a">>}

\* C15: once a file write of an invocation has failed the invocation is over:
\* the files written before it are on disk with their new content, the file
\* whose write failed and the files after it are as they were when the
\* invocation started, and the invocation has ended with the error.
C15_FailedWriteStopsTheRun ==
  (left.some /\ ~left.ok) =>
    /\ pc = "failed"
    /\ Tree(fsDirs, fsFiles) = left.tree
    /\ \A j \in 1..Len(wrote) :
         /\ wrote[j] = filePath(gen, arg, writeOrder(gen)[j])
         /\ fsFiles[wrote[j]] = trim(content(gen, arg, writeOrder(gen)[j]))
    /\ \A j \in (Len(wrote) + 1)..Len(writeOrder(gen)) :
         LET f == filePath(gen, arg, writeOrder(gen)[j])
         IN  /\ f \in DOMAIN fsFiles <=> f \in DOMAIN start.files
             /\ f \in DOMAIN fsFiles => fsFiles[f] = start.files[f]

C15_Witness ==
  /\ pc = "failed"
  /\ gen = "NestedColocated"
  /\ Depth(arg) = 2
  /\ Len(wrote) = 2
  /\ wrote[2] \in DOMAIN fsFiles
  /\ filePath(gen, arg, "model") \notin DOMAIN fsFiles

\* C16: an invocation that fails at a file write has printed the report lines
\* of the files it wrote before the failure, one line for each of them.
C16_FailedRunReportsWhatItWrote ==
  pc = "failed" =>
    /\ Len(log) = Len(wrote)
    /\ \A j \in 1..Len(wrote) : \E n \in 1..Len(log) : log[n].path = formatPath(wrote[j])

\* C19: when two invocations run at the same time on the same resource path,
\* neither fails at the creation of a directory, also when the other one
\* creates the directory between its existence check and its mkdirSync; once
\* an invocation is past the directory loop all its directories exist.
C19_MkdirSurvivesTheRace ==
  \A p \in DOMAIN procs :
    /\ procs[p].pc # "mkdir failed"
    /\ procs[p].pc \notin {"exists", "mkdir"} =>
         \A k \in 1..Len(dirList(procs[p].gen, arg)) :
           IsDirectory(fsDirs, dirList(procs[p].gen, arg)[k])

C19_Witness ==
  /\ DOMAIN procs = Procs
  /\ \E p \in Procs : procs[p].raced /\ procs[p].pc = "done"
  /\ \A p \in Procs : procs[p].pc = "done"

\* C20: when two invocations that write the same paths have both completed,
\* every file they wrote holds the complete content that the invocation which
\* wrote it last has written, and nothing else.
C20_LastWriterWins ==
  (DOMAIN procs = Procs /\ \A p \in Procs : procs[p].pc = "done") =>
    \A f \in DOMAIN lastWrite :
      LET g == procs[lastWrite[f]].gen
      IN  \E k \in 1..Len(writeOrder(g)) :
            /\ filePath(g, arg, writeOrder(g)[k]) = f
            /\ fsFiles[f] = trim(content(g, arg, writeOrder(g)[k]))

\* the directory variable a kind's file path is built from
DirOfKind(g, a, kind) == IF kind = "route" THEN routeDir(g, a) ELSE moduleDir(g, a)

\* C21: within one invocation no file is written before the directory of
\* every kind exists, also of the kinds whose directory variable is not in
\* the list of the creation loop; planning, directory creation, writing and
\* reporting follow one another and never overlap.
C21_WritesFollowDirectoryCreation ==
  /\ (pc \in {"write", "report", "done"} \/ wrote # <<>>) =>
       \A k \in 1..Len(writeOrder(gen)) :
         IsDirectory(fsDirs, DirOfKind(gen, arg, writeOrder(gen)[k]))
  /\ pc = "start" => fsDirs = start.dirs
  /\ pc \in {"start", "mkdir"} => (wrote = <<>> /\ log = <<>> /\ fsFiles = start.files)
  /\ pc = "write" => log = <<>>
  /\ log # <<>> => (pc = "done" /\ Len(wrote) = Len(writeOrder(gen)))

C21_Witness ==
  /\ gen = "FlatColocated"
  /\ pc = "done"
  /\ filePath(gen, arg, "service") \in Written
  /\ filePath(gen, arg, "validation") \in Written
  /\ moduleDir(gen, arg) \notin start.dirs
  /\ moduleDir(gen, arg) \in fsDirs

User == <<"U", "s", "e", "r">>

\* the names the route file imports from the controller
RouteHandlerImports(c) ==
  {it.names : it \in {x \in ItemsOf(c) : IsImport(x) /\ Len(x.names) > 1}}

Twin(g) == IF g = "NestedSplit" THEN "FlatSplit" ELSE "FlatColocated"

\* C23: for a name without a separator a nested generator creates the
\* directories, writes the file paths in the order, and prints the report
\* paths in the order, of the flat generator of the same layout.
C23_NestedAtDepthZeroIsFlat ==
  (IsNested(gen) /\ Depth(arg) = 0) =>
    LET t == Twin(gen)
        dirsOf(g) == {dirList(g, arg)[k] : k \in 1..Len(dirList(g, arg))}
    IN  /\ dirsOf(gen) = dirsOf(t)
        /\ pc # "failed"
        /\ pc \in {"write", "report", "done"} =>
             fsDirs = start.dirs \cup UNION {mkdirSync({}, d) : d \in dirsOf(t)}
        /\ pc \in {"report", "done"} =>
             wrote = [k \in 1..Len(writeOrder(t)) |-> filePath(t, arg, writeOrder(t)[k])]
        /\ pc = "done" =>
             [j \in 1..Len(log) |-> log[j].path]
               = [j \in 1..Len(reportOrder(t)) |->
                    formatPath(filePath(t, arg, reportOrder(t)[j]))]

C23_Witness ==
  /\ gen = "NestedSplit"
  /\ arg = UserName
  /\ pc = "done"
  /\ wrote[1] = <<SRC, ROUTES, UserName, <<"index", ".ts">>>>
  /\ Len(log) = 5

\* the content of the file of one kind, as this invocation left it
FileOf(kind) == fsFiles[filePath(gen, arg, kind)]

Imports(c) == {it \in ItemsOf(c) : IsImport(it)}
Exports(c) == {it \in ItemsOf(c) : it.k = "export"}

\* C24: the files of one invocation refer to names the others define: the
\* eight names the route imports from the controller are the eight names the
\* controller exports, the validator the route imports is exported by the
\* validation file, and in the colocated layout every controller handler
\* calls the member of its own name of <resourceName>Services, the service
\* file exports <resourceName>Services with exactly those eight members, and
\* the model file has the export the service imports.
C24_CrossReferencesAreClosed ==
  pc = "done" =>
    LET fromController == {it \in Imports(FileOf("route")) : Len(it.names) = 8}
        fromValidation == {it \in Imports(FileOf("route")) : Len(it.names) = 1}
        handlers == SelectSeq(FileOf("controller"), LAMBDA it : it.k = "export")
    IN  /\ Cardinality(fromController) = 1
        /\ \A it \in fromController :
             /\ it.names = [k \in 1..Len(handlers) |-> handlers[k].names[1]]
             /\ Cardinality({it.names[k] : k \in 1..8}) = 8
             /\ Exported(FileOf("controller")) = {it.names[k] : k \in 1..8}
        /\ Cardinality(fromValidation) = 1
        /\ \A it \in fromValidation : it.names[1] \in Exported(FileOf("validation"))
        /\ ~IsSplit(gen) =>
             LET services == Exports(FileOf("service"))
                 used == {it \in Imports(FileOf("controller")) : ~IsShared(it)}
             IN  /\ Cardinality(services) = 1
                 /\ \A sv \in services :
                      /\ Len(sv.calls) = 8
                      /\ sv.calls = [k \in 1..Len(handlers) |-> handlers[k].names[1]]
                      /\ \A k \in 1..Len(handlers) :
                           handlers[k].calls = <<sv.names[1], handlers[k].names[1]>>
                      /\ \A it \in used : it.names = <<sv.names[1]>>
                 /\ Cardinality(used) = 1
                 /\ Cardinality(Imports(FileOf("service"))) = 1
                 /\ Cardinality(Exports(FileOf("model"))) = 1

C24_Witness ==
  /\ pc = "done"
  /\ gen = "NestedColocated"
  /\ Depth(arg) = 1
  /\ \E sv \in Exports(FileOf("service")) : Len(sv.calls) = 8
  /\ \E it \in Exports(FileOf("controller")) : Len(it.calls) = 2

\* C27: every directory an invocation creates and every file it writes lies
\* in <base src>/modules or <base src>/routes, and it leaves everything else
\* as it was.
C27_WritesStayInTheTwoTrees ==
  /\ \A d \in fsDirs \ start.dirs : InTree(d, MODULES) \/ InTree(d, ROUTES)
  /\ \A f \in Written : InTree(f, MODULES) \/ InTree(f, ROUTES)
  /\ \A f \in DOMAIN fsFiles \ Written : f \in DOMAIN start.files /\ fsFiles[f] = start.files[f]
  /\ \A f \in DOMAIN start.files : f \in DOMAIN fsFiles
  /\ \A d \in start.dirs : d \in fsDirs

\* the handlers of one item, the handlers of many, and the verb of a method
SingleHandlers(cap) == {updateName(cap), deleteName(cap), getByIdName(cap)}
ManyHandler(method, cap) ==
  CASE method = "put" -> updateManyName(cap)
    [] method = "delete" -> deleteManyName(cap)
    [] method = "get" -> getManyName(cap)
    [] OTHER -> createManyName(cap)
VerbOf(method) ==
  CASE method = "put" -> "update-"
    [] method = "delete" -> "delete-"
    [] method = "get" -> "get-"
    [] OTHER -> "create-"
InTrace(name) == \E k \in 1..Len(req.trace) : req.trace[k] = name

\* C25: in the route table of the generated route file the id validator is
\* attached to exactly the three routes whose path ends in ':id' (PUT
\* update, DELETE delete, GET get), before the controller handler, and to no
\* other route; a single-item handler runs only right after the validator,
\* and only for an id the validator accepted; when validation fails the error
\* handler is called, the request is over and no controller handler has run.
C25_HandlerRunsOnlyAfterValidatorAccepts ==
  LET cap == capitalizedResourceName(gen, arg)
      guarded == {k \in 1..Len(Table) :
                    \E h \in 1..Len(Table[k].names) : IsValidator(Table[k].names[h])}
  IN  /\ pc = "done" =>
           /\ guarded = {k \in 1..Len(Table) : Last(split(Table[k].str)) = <<":id">>}
           /\ Cardinality(guarded) = 3
           /\ {Table[k].m : k \in guarded} = {"put", "delete", "get"}
           /\ \A k \in guarded :
                /\ Len(Table[k].names) = 2
                /\ IsValidator(Table[k].names[1])
                /\ Table[k].names[2] \in SingleHandlers(cap)
      /\ \A j \in 1..Len(req.trace) :
           req.trace[j] \in SingleHandlers(cap) =>
             /\ j > 1
             /\ IsValidator(req.trace[j - 1])
             /\ safeParse(req.id)
      /\ InTrace(ZodErrorHandler) =>
           /\ req.status = "responded"
           /\ ~safeParse(req.id)
           /\ req.trace = <<validateIdName(cap), ZodErrorHandler>>

C25_Witness ==
  /\ req.status = "responded"
  /\ req.method = "delete"
  /\ req.id = <<"a">>
  /\ req.trace = <<validateIdName(capitalizedResourceName(gen, arg)), ZodErrorHandler>>

\* C26: a PUT, DELETE or GET request for /update-<name>/many,
\* /delete-<name>/many or /get-<name>/many is taken by the route of the
\* many-handler: it never enters a route with the id validator, no id is
\* bound, and the response comes from the many-handler alone.
C26_ManyIsNeverAnId ==
  LET cap == capitalizedResourceName(gen, arg)
      rn == resourceName(gen, arg)
  IN  (/\ req.method \in {"put", "delete", "get"}
       /\ req.path = <<SEP, VerbOf(req.method)>> \o rn \o <<SEP, "many">>) =>
        /\ req.status = "in route" =>
             /\ Table[req.layer].names = <<ManyHandler(req.method, cap)>>
             /\ req.id = <<>>
        /\ req.status = "responded" =>
             req.trace = <<ManyHandler(req.method, cap)>>
        /\ ~InTrace(validateIdName(cap))
        /\ \A n \in SingleHandlers(cap) : ~InTrace(n)

C26_Witness ==
  /\ req.status = "responded"
  /\ req.method = "put"
  /\ req.path = <<SEP, "update-">> \o resourceName(gen, arg) \o <<SEP, "many">>
  /\ req.trace = <<updateManyName(capitalizedResourceName(gen, arg))>>

\* the commands run before start-up, the route file of one and the prefix
\* /api/v1/<segments>/<name> it is to be mounted at
Commands == {app.cmds[k] : k \in 1..Len(app.cmds)} \cup {<<gen, arg>>}
RouteFileOf(c) == routeFilePath(c[1], c[2])
GeneratedRouteFiles == {c \in Commands : RouteFileOf(c) \in DOMAIN fsFiles}
ExpectedPrefix(c) ==
  ApiPrefix \o <<SEP>> \o join(nestedFolders(c[1], c[2]) \o <<resourceName(c[1], c[2])>>)
MountsOf(file) == {k \in 1..Len(app.mounts) : app.mounts[k].file = file}

\* C28: after the recursive loader has run, every route file a split-mode
\* command generated is mounted exactly once, at /api/v1/<segments>/<name>,
\* and PathNotFound is registered once, after all of them.
C28_RecursiveLoaderMountsEveryRouteFile ==
  app.loader = "recursive" =>
    /\ app.status = "up"
    /\ \A c \in GeneratedRouteFiles :
         /\ Cardinality(MountsOf(RouteFileOf(c))) = 1
         /\ \A k \in MountsOf(RouteFileOf(c)) : app.mounts[k].prefix = ExpectedPrefix(c)
    /\ MountsOf(PathNotFound) = {Len(app.mounts)}

\* C29: after the non-recursive loader has run, start-up has completed
\* without an exception and every route file a split-mode command generated
\* is mounted at /api/v1/<segments>/<name>.
C29_FlatLoaderStartsAndMountsEveryRouteFile ==
  app.loader = "flat" =>
    /\ app.status = "up"
    /\ \A c \in GeneratedRouteFiles :
         \E k \in MountsOf(RouteFileOf(c)) : app.mounts[k].prefix = ExpectedPrefix(c)

====
